---- MODULE Spec2Model ----
(***************************************************************************)
(* Model of scripts/scan.py: the driver loop of main(), the package source *)
(* resolver download_crate(), the result stream parser scan_crate(), the   *)
(* aggregation of its results into the three run summaries, and the        *)
(* reports made of them.                                                   *)
(*                                                                         *)
(* Text is modelled as a sequence of tokens.  A token is a word (a run of  *)
(* characters holding no comma and no whitespace), a comma ",", a space    *)
(* " " or a newline "\n".  The Python delimiter ", " is the two tokens     *)
(* "," and " " in a row.  Bytes and str are not told apart (the analyzer   *)
(* output is ASCII, for which decode("utf-8") changes no character).       *)
(*                                                                         *)
(* Specifications:                                                         *)
(*   Spec          runs of main() from the package loop to the reports     *)
(*   ParserSpec    one call of scan_crate() on any analyzer output         *)
(*   StartSpec     main() from the parsed arguments to the analyzer start  *)
(*   MetadataSpec  runs whose metadata rows differ between packages        *)
(*   PipeSpec      scan_crate() and its analyzer process on bounded pipes  *)
(***************************************************************************)
EXTENDS Integers, Sequences, FiniteSets, TLC

(***************************************************************************)
(* Bounds of the model.                                                    *)
(***************************************************************************)
\* longest package list of a run
MaxCrates == 2
\* most lines of the analyzer output when every output is tried on the parser
MaxLines == 6
\* the -v options of a command line are 0..MaxVerbose
MaxVerbose == 6
\* lines, or units of diagnostic text, a pipe holds before a write to it blocks
PipeCapacity == 2
\* an analyzer writes up to MaxStderr units of diagnostic text
MaxStderr == 3

(***************************************************************************)
(* Text helpers.                                                           *)
(***************************************************************************)
Whitespace == {" ", "\n"}

RECURSIVE lstrip(_)
lstrip(s) == IF s # <<>> /\ Head(s) \in Whitespace THEN lstrip(Tail(s)) ELSE s

RECURSIVE rstrip(_)
rstrip(s) ==
    IF s # <<>> /\ s[Len(s)] \in Whitespace THEN rstrip(SubSeq(s, 1, Len(s) - 1)) ELSE s

\* x.strip().decode("utf-8")
strip(s) == rstrip(lstrip(s))

\* ", ".join(cols) for a list of one-word columns
RECURSIVE join(_)
join(cols) ==
    IF cols = <<>> THEN <<>>
    ELSE IF Len(cols) = 1 THEN <<cols[1]>>
    ELSE <<cols[1], ",", " ">> \o join(Tail(cols))

\* the columns of s from index a on, k being the index up to which the
\* column that begins at a has been scanned for a ", "
RECURSIVE SplitFrom(_, _, _)
SplitFrom(s, a, k) ==
    IF k > Len(s) THEN <<SubSeq(s, a, Len(s))>>
    ELSE IF s[k] = "," /\ k < Len(s) /\ s[k + 1] = " "
    THEN <<SubSeq(s, a, k - 1)>> \o SplitFrom(s, k + 2, k + 2)
    ELSE SplitFrom(s, a, k + 1)

\* s.split(", ")
split(s) == SplitFrom(s, 1, 1)

(***************************************************************************)
(* Program constants.                                                      *)
(***************************************************************************)
CARGO_SCAN_CSV_HEADER ==
    join(<<"crate", "fn_decl", "callee", "effect", "dir", "file", "line", "col">>)

CARGO_SCAN_METADATA_HEADER ==
    join(<<"total", "loc_lb", "loc_ub", "macros", "loc_lb", "loc_ub",
           "conditional_code", "loc_lb", "loc_ub", "skipped_calls", "loc_lb", "loc_ub",
           "skipped_fn_ptrs", "loc_lb", "loc_ub", "skipped_other", "loc_lb", "loc_ub",
           "unsafe_trait", "loc_lb", "loc_ub", "unsafe_impl", "loc_lb", "loc_ub",
           "pub_fns", "pub_fns_with_effects", "pub_total_effects">>)

RESULTS_ALL_SUFFIX == "_all.csv"
RESULTS_PATTERN_SUFFIX == "_pattern.txt"
RESULTS_SUMMARY_SUFFIX == "_summary.txt"
RESULTS_METADATA_SUFFIX == "_metadata.csv"

(***************************************************************************)
(* Inputs: the package identifiers and the lines an analyzer run may write *)
(* to its output pipe (raw, each ended by a newline).                      *)
(***************************************************************************)
Packages == {"a", "b"}

HeaderLine == CARGO_SCAN_CSV_HEADER \o <<"\n">>
MetaHeaderLine == CARGO_SCAN_METADATA_HEADER \o <<"\n">>
UnsafeLine == join(<<"a", "f", "g", "Unsafe", "./", "a.rs", "10", "4">>) \o <<"\n">>
FileReadLine == join(<<"a", "h", "k", "FileRead", "./", "b.rs", "7", "1">>) \o <<"\n">>
BlankLine == <<"\n">>
\* the metadata row of the spec's scenario: "5, 1,1,0"
MetaRowLine == <<"5", ",", " ", "1", ",", "1", ",", "0", "\n">>

Lines == {HeaderLine, MetaHeaderLine, UnsafeLine, FileReadLine, BlankLine, MetaRowLine}

\* every analyzer output of at most MaxLines lines
AllStreams == UNION {[1..n -> Lines] : n \in 0..MaxLines}

\* the findings of the packages of a run: none, one, or two of different kinds
FindingLists == {<<>>, <<UnsafeLine>>, <<UnsafeLine, FileReadLine>>}

WellFormedStream(fs, row) == <<HeaderLine>> \o fs \o <<BlankLine, MetaHeaderLine, row>>

\* outputs that follow the protocol
WellFormedStreams == {WellFormedStream(fs, MetaRowLine) : fs \in FindingLists}

\* s without its k-th line
DropLine(s, k) == SubSeq(s, 1, k - 1) \o SubSeq(s, k + 1, Len(s))

\* outputs that break the protocol in one place: a line is lost, or a line
\* follows the metadata row
DamagedStreams ==
    UNION {{DropLine(w, k) : k \in 1..Len(w)} : w \in WellFormedStreams}
    \cup {Append(w, UnsafeLine) : w \in WellFormedStreams}

\* a second metadata row, after the first in the order of str
OtherRowLine == <<"7", ",", " ", "0", ",", "1", ",", "0", "\n">>

\* outputs that follow the protocol, with one of two metadata rows
MetadataStreams ==
    {WellFormedStream(fs, row) : fs \in {<<>>, <<UnsafeLine>>},
                                 row \in {MetaRowLine, OtherRowLine}}

\* the outputs of an analyzer that follows the protocol, breaks it in one
\* place, or writes nothing
RunStreams == WellFormedStreams \cup DamagedStreams \cup {<<>>}

\* the orders in which an analyzer process can write the lines of out to its
\* stdout and e units of text to its stderr
Scripts(out, e) ==
    {w \in [1..(Len(out) + e) -> {"stdout", "stderr"}] :
        Cardinality({k \in 1..(Len(out) + e) : w[k] = "stdout"}) = Len(out)}

\* proc.stdout.readline() returns b"" at end of stream
EOF == <<>>

(***************************************************************************)
(* Dictionaries keep insertion order: a sequence of <<key, value>> pairs   *)
(* with distinct keys.                                                     *)
(***************************************************************************)
HasKey(d, k) == \E n \in 1..Len(d) : d[n][1] = k

DictGet(d, k) == d[CHOOSE n \in 1..Len(d) : d[n][1] = k][2]

\* d[k] = v
DictSet(d, k, v) ==
    IF HasKey(d, k) THEN [n \in 1..Len(d) |-> IF d[n][1] = k THEN <<k, v>> ELSE d[n]]
    ELSE Append(d, <<k, v>>)

\* d.setdefault(k, v)
SetDefault(d, k, v) == IF HasKey(d, k) THEN d ELSE Append(d, <<k, v>>)

\* {c: v for c in keys}
RECURSIVE DictFromKeys(_, _)
DictFromKeys(keys, v) ==
    IF keys = <<>> THEN <<>>
    ELSE DictSet(DictFromKeys(SubSeq(keys, 1, Len(keys) - 1), v), keys[Len(keys)], v)

\* sum(d.values())
RECURSIVE SumValues(_)
SumValues(d) == IF d = <<>> THEN 0 ELSE d[1][2] + SumValues(Tail(d))

(***************************************************************************)
(* The package list file.  Its text is a sequence of tokens: words, ",",   *)
(* "\n" and the double quote.                                              *)
(***************************************************************************)
Quote == "\""

HeaderRow == <<"name", ",", "downloads", "\n">>

\* a data row: the package, and a column that is informational only
PlainRow(p) == <<p, ",", "7", "\n">>

\* a data row whose informational column is a quoted text of two lines
QuotedRow(p) == <<p, ",", Quote, "x", "\n", "y", Quote, "\n">>

ListRows == {PlainRow(p) : p \in Packages} \cup {QuotedRow(p) : p \in Packages}
                \cup {BlankLine}

RECURSIVE Flatten(_)
Flatten(rows) == IF rows = <<>> THEN <<>> ELSE Head(rows) \o Flatten(Tail(rows))

\* a header row and up to MaxCrates rows
ListFiles ==
    {HeaderRow \o Flatten(rows) : rows \in UNION {[1..n -> ListRows] : n \in 0..MaxCrates}}

\* the list file with a header row and one plain row per package of cs
PlainFile(cs) == HeaderRow \o Flatten([k \in 1..Len(cs) |-> PlainRow(cs[k])])

\* fh.readlines(): the text cut after each "\n"
RECURSIVE readlines(_)
readlines(text) ==
    IF text = <<>> THEN <<>>
    ELSE LET ends == {k \in 1..Len(text) : text[k] = "\n"} \cup {Len(text)}
             n == CHOOSE k \in ends : \A m \in ends : k <= m
         IN  <<SubSeq(text, 1, n)>> \o readlines(SubSeq(text, n + 1, Len(text)))

\* count_lines(cratefile, header_row=True)
count_lines(text) == Len(readlines(text)) - 1

\* csv.reader(infile, delimiter=','): the rows of the rest of the text, field
\* and row being the field and the row that are open; a comma ends a field and
\* a "\n" ends a row unless they stand between quotes; an empty line gives a
\* row with no field
RECURSIVE csv_reader(_, _, _, _)
csv_reader(text, quoted, field, row) ==
    LET close == IF field = <<>> /\ row = <<>> THEN <<>> ELSE Append(row, field)
    IN  IF text = <<>> THEN (IF close = <<>> THEN <<>> ELSE <<close>>)
        ELSE LET c == Head(text)
                 rest == Tail(text)
             IN  IF c = Quote THEN csv_reader(rest, ~quoted, field, row)
                 ELSE IF quoted THEN csv_reader(rest, TRUE, Append(field, c), row)
                 ELSE IF c = "," THEN csv_reader(rest, FALSE, <<>>, Append(row, field))
                 ELSE IF c = "\n" THEN <<close>> \o csv_reader(rest, FALSE, <<>>, <<>>)
                 ELSE csv_reader(rest, FALSE, Append(field, c), row)

\* the rows after the first one: for i, row in enumerate(in_reader): if i > 0
DataRows(text) == Tail(csv_reader(text, FALSE, <<>>, <<>>))

\* row[0] of a row with no field raises IndexError
HasEmptyRow(text) == \E k \in 1..Len(DataRows(text)) : DataRows(text)[k] = <<>>

\* the text of a field; the first fields of the model's files are one word
FieldText(field) == IF field = <<>> THEN "" ELSE field[1]

\* get_crate_names(cratefile), for a text it does not fail on
get_crate_names(text) ==
    [k \in 1..Len(DataRows(text)) |-> FieldText(DataRows(text)[k][1])]

(***************************************************************************)
(* State.                                                                  *)
(***************************************************************************)
VARIABLES
    verbose,           \* args.verbose: the number of -v options
    infile,            \* args.infile: <<the text of the package list file>>,
                       \* <<>> when the package is named with -c
    num_crates,        \* main: the package count that is reported
    script,            \* the writes the running analyzer process has still to do
    sent,              \* lines the analyzer has written to its stdout pipe
    err_fill,          \* units the analyzer has written to its stderr pipe
    crates,            \* the package list of the run
    test_run,          \* args.test_run
    existing,          \* the package directories present under crates_dir
    pc,                \* position of main()
    i,                 \* number of the package being processed (1-based)
    outputs,           \* what each analyzer process started so far writes to its
                       \* stdout pipe, in the order of scan_log
    pos,               \* lines of it read by this scan_crate call
    eof,               \* readline() has returned b"" in this scan_crate call
    effects,           \* scan_crate: the list of (effect_pat, effect_csv)
    metadata,          \* scan_crate: the metadata row
    j,                 \* position of the fold loop in effects
    results,           \* main: the raw findings
    crate_summary,     \* main: package -> count
    pattern_summary,   \* main: pattern-kind -> count
    metadata_summary,  \* main: package -> metadata row
    raised,            \* the exception that ended the run: <<type, message>>
    exit_code,         \* exit status of the process, -1 while it runs
    fetch_log,         \* packages cargo-download was run for, in order
    scan_log,          \* packages the analyzer was started for, in order
    output_prefix,     \* args.output_prefix, None when not given
    sanity_logged,     \* the "Logic error" message of the sanity check was logged
    logged,            \* the reports emitted to the log, in order
    files              \* the files written, in order: <<path, content>>

vars == <<verbose, infile, num_crates, script, sent, err_fill, crates, test_run, existing, pc, i, outputs, pos, eof, effects, metadata, j,
          results, crate_summary, pattern_summary, metadata_summary, raised,
          exit_code, fetch_log, scan_log, output_prefix, sanity_logged, logged,
          files>>

summaries == <<results, crate_summary, pattern_summary, metadata_summary>>

NoError == <<"none", "">>

None == "None"

CrateLists == UNION {[1..n -> Packages] : n \in 0..MaxCrates}

\* main() about to enter the package loop, the list read from a file with one
\* plain row per package and no -v given
Init ==
    /\ crates \in CrateLists
    /\ verbose = 0
    /\ infile = <<PlainFile(crates)>>
    /\ num_crates = Len(crates)
    /\ script = <<>>
    /\ sent = 0
    /\ err_fill = 0
    /\ test_run \in BOOLEAN
    /\ existing \in SUBSET Packages
    /\ pc = "loop"
    /\ i = 0
    /\ outputs = <<>>
    /\ pos = 0
    /\ eof = FALSE
    /\ effects = <<>>
    /\ metadata = <<>>
    /\ j = 1
    /\ results = <<>>
    /\ crate_summary = DictFromKeys(crates, 0)
    /\ pattern_summary = <<>>
    /\ metadata_summary = DictFromKeys(crates, <<>>)
    /\ raised = NoError
    /\ exit_code = -1
    /\ fetch_log = <<>>
    /\ scan_log = <<>>
    /\ output_prefix \in {None, "out"}
    /\ sanity_logged = FALSE
    /\ logged = <<>>
    /\ files = <<>>

\* main() about to call scan_crate for the only package of a run, whose
\* directory was found
InitScan ==
    /\ crates = <<"a">>
    /\ verbose = 0
    /\ infile = <<>>
    /\ num_crates = 1
    /\ script = <<>>
    /\ sent = 0
    /\ err_fill = 0
    /\ test_run = FALSE
    /\ existing = {"a"}
    /\ pc = "popen"
    /\ i = 1
    /\ outputs = <<>>
    /\ pos = 0
    /\ eof = FALSE
    /\ effects = <<>>
    /\ metadata = <<>>
    /\ j = 1
    /\ results = <<>>
    /\ crate_summary = DictFromKeys(crates, 0)
    /\ pattern_summary = <<>>
    /\ metadata_summary = DictFromKeys(crates, <<>>)
    /\ raised = NoError
    /\ exit_code = -1
    /\ fetch_log = <<>>
    /\ scan_log = <<>>
    /\ output_prefix = None
    /\ sanity_logged = FALSE
    /\ logged = <<>>
    /\ files = <<>>

\* main() after parser.parse_args()
InitMain ==
    /\ verbose \in 0..MaxVerbose
    /\ infile \in {<<>>} \cup {<<text>> : text \in ListFiles}
    /\ num_crates = 0
    /\ script = <<>>
    /\ sent = 0
    /\ err_fill = 0
    /\ crates = <<>>
    /\ test_run \in BOOLEAN
    /\ existing \in SUBSET Packages
    /\ pc = "args"
    /\ i = 0
    /\ outputs = <<>>
    /\ pos = 0
    /\ eof = FALSE
    /\ effects = <<>>
    /\ metadata = <<>>
    /\ j = 1
    /\ results = <<>>
    /\ crate_summary = <<>>
    /\ pattern_summary = <<>>
    /\ metadata_summary = <<>>
    /\ raised = NoError
    /\ exit_code = -1
    /\ fetch_log = <<>>
    /\ scan_log = <<>>
    /\ output_prefix \in {None, "out"}
    /\ sanity_logged = FALSE
    /\ logged = <<>>
    /\ files = <<>>

(***************************************************************************)
(* main(): the head of the package loop.  The progress messages of the     *)
(* loop write to the log only and are left out.                            *)
(***************************************************************************)
crate == crates[i]

\* a loop that takes the package it has just processed once more
LoopNext_Again ==
    /\ pc = "loop"
    /\ i < Len(crates)
    /\ i' = IF i = 0 THEN 1 ELSE i
    /\ pc' = "download"
    /\ UNCHANGED <<verbose, infile, num_crates, script, sent, err_fill, crates, test_run,
                   existing, outputs, pos, eof, effects, metadata, j, results,
                   crate_summary, pattern_summary, metadata_summary, raised, exit_code,
                   fetch_log, scan_log, output_prefix, sanity_logged, logged, files>>

\* for i, crate in enumerate(crates): the next package
LoopNext ==
    /\ pc = "loop"
    /\ i < Len(crates)
    /\ i' = i + 1
    /\ pc' = "download"
    /\ UNCHANGED <<verbose, infile, num_crates, script, sent, err_fill, crates, test_run, existing, outputs, pos, eof, effects, metadata, j,
                   results, crate_summary, pattern_summary, metadata_summary, raised,
                   exit_code, fetch_log, scan_log, output_prefix, sanity_logged,
                   logged, files>>

\* the loop is exhausted
LoopEnd ==
    /\ pc = "loop"
    /\ i = Len(crates)
    /\ pc' = "sanity"
    /\ UNCHANGED <<verbose, infile, num_crates, script, sent, err_fill, crates, test_run, existing, i, outputs, pos, eof, effects, metadata, j,
                   results, crate_summary, pattern_summary, metadata_summary, raised,
                   exit_code, fetch_log, scan_log, output_prefix, sanity_logged,
                   logged, files>>

(***************************************************************************)
(* download_crate(crates_dir, crate, test_run), called from main().        *)
(***************************************************************************)
\* a resolver that forgets the test-run policy
NeedsFetch_IgnoreTest(c) == c \notin existing

\* the branch of download_crate that runs cargo-download
NeedsFetch(c) == c \notin existing /\ ~test_run

\* os.path.exists(target): the directory is there, nothing is done
DownloadFound ==
    /\ pc = "download"
    /\ crate \in existing
    /\ pc' = "popen"
    /\ UNCHANGED <<verbose, infile, num_crates, script, sent, err_fill, crates, test_run, existing, i, outputs, pos, eof, effects, metadata, j,
                   results, crate_summary, pattern_summary, metadata_summary, raised,
                   exit_code, fetch_log, scan_log, output_prefix, sanity_logged,
                   logged, files>>

\* test run and no directory: a warning is logged and download_crate returns
DownloadTestMissing ==
    /\ pc = "download"
    /\ crate \notin existing
    /\ test_run
    /\ pc' = "popen"
    /\ UNCHANGED <<verbose, infile, num_crates, script, sent, err_fill, crates, test_run, existing, i, outputs, pos, eof, effects, metadata, j,
                   results, crate_summary, pattern_summary, metadata_summary, raised,
                   exit_code, fetch_log, scan_log, output_prefix, sanity_logged,
                   logged, files>>

\* a driver that logs the failed fetch and goes on to scan the package
DownloadFetch_Continue ==
    /\ pc = "download"
    /\ NeedsFetch(crate)
    /\ fetch_log' = Append(fetch_log, crate)
    /\ \E ok \in BOOLEAN :
         IF ok
         THEN /\ existing' = existing \cup {crate}
              /\ UNCHANGED raised
         ELSE /\ raised' = <<"CalledProcessError", "">>
              /\ UNCHANGED existing
    /\ pc' = "popen"
    /\ UNCHANGED <<verbose, infile, num_crates, script, sent, err_fill, crates, test_run, i, outputs, pos, eof, effects, metadata, j,
                   results, crate_summary, pattern_summary, metadata_summary,
                   exit_code, scan_log, output_prefix, sanity_logged, logged, files>>

\* subprocess.run(CARGO_DOWNLOAD + ..., check=True): exit status 0 leaves the
\* directory in place; any other status raises CalledProcessError, which
\* main() answers with logging.error and sys.exit(1)
DownloadFetch ==
    /\ pc = "download"
    /\ NeedsFetch(crate)
    /\ fetch_log' = Append(fetch_log, crate)
    /\ \E ok \in BOOLEAN :
         IF ok
         THEN /\ existing' = existing \cup {crate}
              /\ pc' = "popen"
              /\ UNCHANGED <<raised, exit_code>>
         ELSE /\ raised' = <<"CalledProcessError", "">>
              /\ exit_code' = 1
              /\ pc' = "exited"
              /\ UNCHANGED existing
    /\ UNCHANGED <<verbose, infile, num_crates, script, sent, err_fill, crates, test_run, i, outputs, pos, eof, effects, metadata, j,
                   results, crate_summary, pattern_summary, metadata_summary,
                   scan_log, output_prefix, sanity_logged, logged, files>>

(***************************************************************************)
(* scan_crate(crate, crate_dir).  One action per call of                   *)
(* next(stdout_lines) (or step of a for loop over stdout_lines), with the  *)
(* statements that follow it up to the next read.  An exception raised in  *)
(* scan_crate is caught nowhere: the interpreter prints the traceback and  *)
(* the process ends with status 1.                                         *)
(***************************************************************************)
\* subprocess.Popen(command, stdout=PIPE, stderr=PIPE): the analyzer starts,
\* writes one of the outputs of streams to its stdout, nothing to its stderr,
\* and exits
Popen(streams) ==
    /\ pc = "popen"
    /\ scan_log' = Append(scan_log, crate)
    /\ \E out \in streams :
         /\ outputs' = Append(outputs, out)
         /\ sent' = Len(out)
    /\ script' = <<>>
    /\ err_fill' = 0
    /\ pos' = 0
    /\ eof' = FALSE
    /\ effects' = <<>>
    /\ metadata' = <<>>
    /\ pc' = "hdr"
    /\ UNCHANGED <<verbose, infile, num_crates, crates, test_run, existing, i, j, results, crate_summary,
                   pattern_summary, metadata_summary, raised, exit_code, fetch_log,
                   output_prefix, sanity_logged, logged, files>>

\* the analyzer for the packages of a run
PopenRun == Popen(RunStreams)

\* the analyzer writing any output
PopenAny == Popen(AllStreams)

\* the analyzer following the protocol, the metadata differing between calls
PopenMetadata == Popen(MetadataStreams)

\* subprocess.Popen(command, stdout=PIPE, stderr=PIPE): the analyzer starts; it
\* will write an output that follows the protocol to its stdout pipe and up to
\* MaxStderr units to its stderr pipe, in some order, and then exit
PopenPipe ==
    /\ pc = "popen"
    /\ scan_log' = Append(scan_log, crate)
    /\ \E out \in WellFormedStreams, e \in 0..MaxStderr :
         /\ outputs' = Append(outputs, out)
         /\ script' \in Scripts(out, e)
    /\ sent' = 0
    /\ err_fill' = 0
    /\ pos' = 0
    /\ eof' = FALSE
    /\ effects' = <<>>
    /\ metadata' = <<>>
    /\ pc' = "hdr"
    /\ UNCHANGED <<verbose, infile, num_crates, crates, test_run, existing, i, j, results,
                   crate_summary, pattern_summary, metadata_summary, raised, exit_code,
                   fetch_log, output_prefix, sanity_logged, logged, files>>

\* the analyzer process does its next write; the write blocks while the pipe
\* is full.  scan_crate reads the stdout pipe only: nothing empties the
\* stderr pipe
AnalyzerWrite ==
    /\ pc \in {"hdr", "effects", "mhdr", "metadata", "trailing"}
    /\ script # <<>>
    /\ IF Head(script) = "stdout"
       THEN /\ sent - pos < PipeCapacity
            /\ sent' = sent + 1
            /\ UNCHANGED err_fill
       ELSE /\ err_fill < PipeCapacity
            /\ err_fill' = err_fill + 1
            /\ UNCHANGED sent
    /\ script' = Tail(script)
    /\ UNCHANGED <<verbose, infile, num_crates, crates, test_run, existing, pc, i, outputs,
                   pos, eof, effects, metadata, j, results, crate_summary,
                   pattern_summary, metadata_summary, raised, exit_code, fetch_log,
                   scan_log, output_prefix, sanity_logged, logged, files>>

\* the output of the analyzer process of this scan_crate call
stream == IF outputs = <<>> THEN <<>> ELSE outputs[Len(outputs)]

\* proc.stdout.readline(): the next line, b"" at the end of the output
readline == IF pos < Len(stream) THEN stream[pos + 1] ELSE EOF

\* the lines read so far
consumed == SubSeq(stream, 1, pos)

\* readline() returns when a line is in the pipe, or when the analyzer has
\* exited, which closes the pipe; until then it blocks
Ready == ~(pos >= sent /\ script # <<>>)

\* the pipe's side of one readline()
Consume(line) ==
    /\ Ready
    /\ pos' = IF line = EOF THEN pos ELSE pos + 1
    /\ eof' = (line = EOF)
    /\ UNCHANGED outputs

\* an exception leaves scan_crate and main()
Raise(exc) ==
    /\ raised' = exc
    /\ exit_code' = 1
    /\ pc' = "crashed"

StopIteration == <<"StopIteration", "">>
IndexError == <<"IndexError", "list index out of range">>
BadHeader == <<"AssertionError", "Unexpected header row from scan">>
BadMetadataHeader == <<"AssertionError", "Unexpected metadata header from scan">>
ExtraOutput == <<"AssertionError", "Unexpected extra output from scan">>

\* hdr = next(stdout_lines); assert hdr == CARGO_SCAN_CSV_HEADER
ReadHeader ==
    /\ pc = "hdr"
    /\ LET line == readline IN
         /\ Consume(line)
         /\ IF line = EOF THEN Raise(StopIteration)
            ELSE IF strip(line) # CARGO_SCAN_CSV_HEADER THEN Raise(BadHeader)
            ELSE pc' = "effects" /\ UNCHANGED <<raised, exit_code>>
    /\ UNCHANGED <<verbose, infile, num_crates, script, sent, err_fill, crates, test_run, existing, i, effects, metadata, j, results,
                   crate_summary, pattern_summary, metadata_summary, fetch_log,
                   scan_log, output_prefix, sanity_logged, logged, files>>

\* a parser that puts each new finding in front
AppendEffect_Prepend(effs, effect_pat, effect_csv) == <<<<effect_pat, effect_csv>>>> \o effs

\* a parser that takes the pattern-kind from the column before 'effect'
AppendEffect_Callee(effs, effect_pat, effect_csv) ==
    Append(effs, <<split(effect_csv)[3], effect_csv>>)

\* effects.append((effect_pat, effect_csv))
AppendEffect(effs, effect_pat, effect_csv) == Append(effs, <<effect_pat, effect_csv>>)

\* a parser that commits each finding to the raw results as it decodes it
ReadEffect_Commit ==
    /\ pc = "effects"
    /\ LET line == readline IN
         /\ Consume(line)
         /\ IF line = EOF \/ strip(line) = <<>>
            THEN /\ pc' = "mhdr"
                 /\ UNCHANGED <<effects, results, raised, exit_code>>
            ELSE LET effect_csv == strip(line)
                     cols == split(effect_csv)
                 IN  IF Len(cols) < 4
                     THEN Raise(IndexError) /\ UNCHANGED <<effects, results>>
                     ELSE /\ effects' = AppendEffect(effects, cols[4], effect_csv)
                          /\ results' = Append(results, effect_csv)
                          /\ pc' = "effects"
                          /\ UNCHANGED <<raised, exit_code>>
    /\ UNCHANGED <<verbose, infile, num_crates, script, sent, err_fill, crates, test_run, existing, i, metadata, j,
                   crate_summary, pattern_summary, metadata_summary, fetch_log,
                   scan_log, output_prefix, sanity_logged, logged, files>>

\* for effect_csv in stdout_lines: one step of the loop
ReadEffect ==
    /\ pc = "effects"
    /\ LET line == readline IN
         /\ Consume(line)
         /\ IF line = EOF \/ strip(line) = <<>>
            THEN /\ pc' = "mhdr"
                 /\ UNCHANGED <<effects, raised, exit_code>>
            ELSE LET effect_csv == strip(line)
                     cols == split(effect_csv)
                 IN  IF Len(cols) < 4
                     THEN Raise(IndexError) /\ UNCHANGED effects
                     ELSE /\ effects' = AppendEffect(effects, cols[4], effect_csv)
                          /\ pc' = "effects"
                          /\ UNCHANGED <<raised, exit_code>>
    /\ UNCHANGED <<verbose, infile, num_crates, script, sent, err_fill, crates, test_run, existing, i, metadata, j, results,
                   crate_summary, pattern_summary, metadata_summary, fetch_log,
                   scan_log, output_prefix, sanity_logged, logged, files>>

\* hdr = next(stdout_lines); assert hdr == CARGO_SCAN_METADATA_HEADER
ReadMetadataHeader ==
    /\ pc = "mhdr"
    /\ LET line == readline IN
         /\ Consume(line)
         /\ IF line = EOF THEN Raise(StopIteration)
            ELSE IF strip(line) # CARGO_SCAN_METADATA_HEADER THEN Raise(BadMetadataHeader)
            ELSE pc' = "metadata" /\ UNCHANGED <<raised, exit_code>>
    /\ UNCHANGED <<verbose, infile, num_crates, script, sent, err_fill, crates, test_run, existing, i, effects, metadata, j, results,
                   crate_summary, pattern_summary, metadata_summary, fetch_log,
                   scan_log, output_prefix, sanity_logged, logged, files>>

\* metadata = next(stdout_lines)
ReadMetadata ==
    /\ pc = "metadata"
    /\ LET line == readline IN
         /\ Consume(line)
         /\ IF line = EOF
            THEN Raise(StopIteration) /\ UNCHANGED metadata
            ELSE /\ metadata' = strip(line)
                 /\ pc' = "trailing"
                 /\ UNCHANGED <<raised, exit_code>>
    /\ UNCHANGED <<verbose, infile, num_crates, script, sent, err_fill, crates, test_run, existing, i, effects, j, results,
                   crate_summary, pattern_summary, metadata_summary, fetch_log,
                   scan_log, output_prefix, sanity_logged, logged, files>>

\* a parser that lets blank lines follow the metadata row
ReadTrailing_SkipBlank ==
    /\ pc = "trailing"
    /\ LET line == readline IN
         /\ Consume(line)
         /\ IF line = EOF
            THEN /\ pc' = "fold"
                 /\ j' = 1
                 /\ UNCHANGED <<raised, exit_code>>
            ELSE IF strip(line) = <<>>
            THEN UNCHANGED <<pc, j, raised, exit_code>>
            ELSE Raise(ExtraOutput) /\ UNCHANGED j
    /\ UNCHANGED <<verbose, infile, num_crates, script, sent, err_fill, crates, test_run, existing, i, effects, metadata, results,
                   crate_summary, pattern_summary, metadata_summary, fetch_log,
                   scan_log, output_prefix, sanity_logged, logged, files>>

\* for _ in stdout_lines: assert False; return effects, metadata
ReadTrailing ==
    /\ pc = "trailing"
    /\ LET line == readline IN
         /\ Consume(line)
         /\ IF line = EOF
            THEN /\ pc' = "fold"
                 /\ j' = 1
                 /\ UNCHANGED <<raised, exit_code>>
            ELSE Raise(ExtraOutput) /\ UNCHANGED j
    /\ UNCHANGED <<verbose, infile, num_crates, script, sent, err_fill, crates, test_run, existing, i, effects, metadata, results,
                   crate_summary, pattern_summary, metadata_summary, fetch_log,
                   scan_log, output_prefix, sanity_logged, logged, files>>

(***************************************************************************)
(* main(): folding the result of scan_crate into the summaries.            *)
(***************************************************************************)
\* crate_summary[crate] += 1
CountCrate(d, c) == DictSet(d, c, DictGet(d, c) + 1)

\* a fold that sets the bucket to 1 instead of adding 1 to it
CountPattern_Assign(d, eff_pat) == DictSet(d, eff_pat, 1)

\* pattern_summary.setdefault(eff_pat, 0); pattern_summary[eff_pat] += 1
CountPattern(d, eff_pat) ==
    LET d0 == SetDefault(d, eff_pat, 0)
    IN  DictSet(d0, eff_pat, DictGet(d0, eff_pat) + 1)

\* for eff_pat, eff_csv in effects: one step of the loop
FoldEffect ==
    /\ pc = "fold"
    /\ j <= Len(effects)
    /\ results' = Append(results, effects[j][2])
    /\ crate_summary' = CountCrate(crate_summary, crate)
    /\ pattern_summary' = CountPattern(pattern_summary, effects[j][1])
    /\ j' = j + 1
    /\ UNCHANGED <<verbose, infile, num_crates, script, sent, err_fill, crates, test_run, existing, pc, i, outputs, pos, eof, effects, metadata,
                   metadata_summary, raised, exit_code, fetch_log, scan_log,
                   output_prefix, sanity_logged, logged, files>>

\* a driver that keeps the first metadata row stored for a package
StoreMetadata_KeepFirst ==
    /\ pc = "fold"
    /\ j > Len(effects)
    /\ metadata_summary' = IF DictGet(metadata_summary, crate) = <<>>
                           THEN DictSet(metadata_summary, crate, metadata)
                           ELSE metadata_summary
    /\ pc' = "loop"
    /\ UNCHANGED <<verbose, infile, num_crates, script, sent, err_fill, crates, test_run,
                   existing, i, outputs, pos, eof, effects, metadata, j, results,
                   crate_summary, pattern_summary, raised, exit_code, fetch_log,
                   scan_log, output_prefix, sanity_logged, logged, files>>

\* metadata_summary[crate] = metadata
StoreMetadata ==
    /\ pc = "fold"
    /\ j > Len(effects)
    /\ metadata_summary' = DictSet(metadata_summary, crate, metadata)
    /\ pc' = "loop"
    /\ UNCHANGED <<verbose, infile, num_crates, script, sent, err_fill, crates, test_run, existing, i, outputs, pos, eof, effects, metadata, j,
                   results, crate_summary, pattern_summary, raised, exit_code,
                   fetch_log, scan_log, output_prefix, sanity_logged, logged, files>>

\* if sum(crate_summary.values()) != sum(pattern_summary.values()): logging.error
SanityCheck ==
    /\ pc = "sanity"
    /\ sanity_logged' = (SumValues(crate_summary) # SumValues(pattern_summary))
    /\ pc' = "report"
    /\ UNCHANGED <<verbose, infile, num_crates, script, sent, err_fill, crates, test_run, existing, i, outputs, pos, eof, effects, metadata, j,
                   results, crate_summary, pattern_summary, metadata_summary, raised,
                   exit_code, fetch_log, scan_log, output_prefix, logged, files>>

(***************************************************************************)
(* Reports.  A report text is modelled by its lines: the fixed title lines *)
(* and one row per entry with the values the f-string prints.              *)
(***************************************************************************)
\* the tokens of the analyzer outputs, in the order Python compares them as
\* strings (a separator sorts below every character of a word, so comparing
\* token by token orders two texts the way comparing them character by
\* character does)
TokenOrder ==
    <<"\n", " ", ",", "./", "0", "1", "10", "4", "5", "7", "FileRead",
      "Unsafe", "a", "a.rs", "b.rs", "callee", "col", "conditional_code", "crate",
      "dir", "effect", "f", "file", "fn_decl", "g", "h", "k", "line", "loc_lb",
      "loc_ub", "macros", "pub_fns", "pub_fns_with_effects", "pub_total_effects",
      "skipped_calls", "skipped_fn_ptrs", "skipped_other", "total", "unsafe_impl",
      "unsafe_trait">>

TokenRank(t) == CHOOSE n \in 1..Len(TokenOrder) : TokenOrder[n] = t

\* a > b for two str values
StrGreater(a, b) ==
    \E n \in 1..Len(a) :
        /\ \A m \in 1..(n - 1) : m <= Len(b) /\ a[m] = b[m]
        /\ n > Len(b) \/ TokenRank(a[n]) > TokenRank(b[n])

\* a > b for two values of the type given: Python compares int with int and
\* str with str
Greater(type, a, b) == IF type = "int" THEN a > b ELSE StrGreater(a, b)

\* sorted(d.items(), key=lambda x: x[1], reverse=True) for a dict whose values
\* are of the type given: a stable sort, so an item comes after the items of
\* greater value and after the earlier items of equal value
sort_summary_dict(d, type) ==
    LET before(n) == {m \in 1..Len(d) :
                        \/ Greater(type, d[m][2], d[n][2])
                        \/ d[m][2] = d[n][2] /\ m < n}
    IN  [q \in 1..Len(d) |-> d[CHOOSE n \in 1..Len(d) : Cardinality(before(n)) = q - 1]]

\* a pattern report in the order of the dict
make_pattern_summary_Unsorted(summary) ==
    [title |-> <<"===== Patterns =====", "Total instances of each effect pattern:">>,
     rows |-> summary]

make_pattern_summary(summary) ==
    [title |-> <<"===== Patterns =====", "Total instances of each effect pattern:">>,
     rows |-> sort_summary_dict(summary, "int")]

\* a package report that lists the packages without findings too
make_crate_summary_KeepZero(summary) ==
    LET crate_sorted == sort_summary_dict(summary, "int")
        nonzero == {n \in 1..Len(crate_sorted) : crate_sorted[n][2] > 0}
    IN  [title |-> <<"===== Crate Summary =====", "Number of effects by crate:">>,
         rows |-> crate_sorted,
         totals_title |-> "===== Crate Totals =====",
         num_nonzero |-> Cardinality(nonzero),
         num_zero |-> Len(crate_sorted) - Cardinality(nonzero)]

make_crate_summary(summary) ==
    LET crate_sorted == sort_summary_dict(summary, "int")
        nonzero == {n \in 1..Len(crate_sorted) : crate_sorted[n][2] > 0}
    IN  [title |-> <<"===== Crate Summary =====", "Number of effects by crate:">>,
         rows |-> SelectSeq(crate_sorted, LAMBDA item : item[2] > 0),
         totals_title |-> "===== Crate Totals =====",
         num_nonzero |-> Cardinality(nonzero),
         num_zero |-> Len(crate_sorted) - Cardinality(nonzero)]

make_metadata_csv(summary) ==
    [title |-> <<"crate", ",", " ">> \o CARGO_SCAN_METADATA_HEADER,
     rows |-> sort_summary_dict(summary, "str")]

\* os.path.join(dir, f"{prefix}{suffix}")
make_path(dir, prefix, suffix) == <<dir, prefix, suffix>>

RESULTS_DIR == "data/results"

\* no output prefix: the three summaries go to the log
LogReports ==
    /\ pc = "report"
    /\ output_prefix = None
    /\ logged' = <<make_pattern_summary(pattern_summary),
                   make_crate_summary(crate_summary),
                   make_metadata_csv(metadata_summary)>>
    /\ pc' = "done"
    /\ exit_code' = 0
    /\ UNCHANGED <<verbose, infile, num_crates, script, sent, err_fill, crates, test_run, existing, i, outputs, pos, eof, effects, metadata, j,
                   results, crate_summary, pattern_summary, metadata_summary, raised,
                   fetch_log, scan_log, output_prefix, sanity_logged, files>>

\* with open(path, 'w') as fh: fh.write(...)
WriteFile(at, suffix, content, next) ==
    /\ pc = at
    /\ files' = Append(files, <<make_path(RESULTS_DIR, output_prefix, suffix), content>>)
    /\ pc' = next
    /\ exit_code' = IF next = "done" THEN 0 ELSE exit_code
    /\ UNCHANGED <<verbose, infile, num_crates, script, sent, err_fill, crates, test_run, existing, i, outputs, pos, eof, effects, metadata, j,
                   results, crate_summary, pattern_summary, metadata_summary, raised,
                   fetch_log, scan_log, output_prefix, sanity_logged, logged>>

\* a raw findings file without the header row
WriteAll_NoHeader ==
    /\ output_prefix # None
    /\ WriteFile("report", RESULTS_ALL_SUFFIX, results, "write_pattern")

\* the raw findings: the header and one line per finding
WriteAll ==
    /\ output_prefix # None
    /\ WriteFile("report", RESULTS_ALL_SUFFIX, <<CARGO_SCAN_CSV_HEADER>> \o results,
                 "write_pattern")

WritePattern ==
    WriteFile("write_pattern", RESULTS_PATTERN_SUFFIX,
              make_pattern_summary(pattern_summary), "write_summary")

WriteSummary ==
    WriteFile("write_summary", RESULTS_SUMMARY_SUFFIX,
              make_crate_summary(crate_summary), "write_metadata")

WriteMetadata ==
    WriteFile("write_metadata", RESULTS_METADATA_SUFFIX,
              make_metadata_csv(metadata_summary), "done")

(***************************************************************************)
(* main(): from the parsed arguments to the package loop.                  *)
(***************************************************************************)
\* logging.error("verbosity only goes up to 4 (-vvvv)"); sys.exit(1)
InvalidVerbosity == <<"SystemExit", "verbosity only goes up to 4 (-vvvv)">>

\* [logging.INFO, logging.ERROR, logging.WARNING, logging.INFO, logging.DEBUG]
LogLevels == <<"INFO", "ERROR", "WARNING", "INFO", "DEBUG">>

\* the list indexed by args.verbose, Python counting from 0
log_level == LogLevels[verbose + 1]

\* if args.verbose > 5: ...; log_level = [...][args.verbose]
CheckVerbosity ==
    /\ pc = "args"
    /\ IF verbose > 5
       THEN /\ raised' = InvalidVerbosity
            /\ exit_code' = 1
            /\ pc' = "exited"
       ELSE IF verbose + 1 > Len(LogLevels)
       THEN Raise(IndexError)
       ELSE /\ log_level \in {"INFO", "ERROR", "WARNING", "DEBUG"}
            /\ pc' = "list"
            /\ UNCHANGED <<raised, exit_code>>
    /\ UNCHANGED <<verbose, infile, num_crates, script, sent, err_fill, crates, test_run,
                   existing, i, outputs, pos, eof, effects, metadata, j, results,
                   crate_summary, pattern_summary, metadata_summary, fetch_log,
                   scan_log, output_prefix, sanity_logged, logged, files>>

\* the package list and the empty summaries: with -c the one package named,
\* with -i the count of count_lines and the names of get_crate_names
ReadList ==
    /\ pc = "list"
    /\ IF infile = <<>>
       THEN /\ num_crates' = 1
            /\ \E c \in Packages : crates' = <<c>>
            /\ pc' = "loop"
            /\ UNCHANGED <<raised, exit_code>>
       ELSE /\ num_crates' = count_lines(infile[1])
            /\ IF HasEmptyRow(infile[1])
               THEN Raise(IndexError) /\ UNCHANGED crates
               ELSE /\ crates' = get_crate_names(infile[1])
                    /\ pc' = "loop"
                    /\ UNCHANGED <<raised, exit_code>>
    /\ crate_summary' = DictFromKeys(crates', 0)
    /\ metadata_summary' = DictFromKeys(crates', <<>>)
    /\ UNCHANGED <<verbose, infile, script, sent, err_fill, test_run, existing, i,
                   outputs, pos, eof, effects, metadata, j, results, pattern_summary,
                   fetch_log, scan_log, output_prefix, sanity_logged, logged, files>>

\* the steps of scan_crate after the analyzer has started
ScanStep ==
    \/ ReadHeader
    \/ ReadEffect
    \/ ReadMetadataHeader
    \/ ReadMetadata
    \/ ReadTrailing

Next ==
    \/ LoopNext
    \/ LoopEnd
    \/ DownloadFound
    \/ DownloadTestMissing
    \/ DownloadFetch
    \/ PopenRun
    \/ ScanStep
    \/ FoldEffect
    \/ StoreMetadata
    \/ SanityCheck
    \/ LogReports
    \/ WriteAll
    \/ WritePattern
    \/ WriteSummary
    \/ WriteMetadata

\* runs over a package list, the analyzer following the protocol or breaking
\* it in one place
Spec == Init /\ [][Next]_vars

\* one call of scan_crate, the analyzer writing any output
ParserSpec == InitScan /\ [][PopenAny \/ ScanStep]_vars

\* main() from the parsed arguments to the start of each package's analyzer
NextStart ==
    \/ CheckVerbosity
    \/ ReadList
    \/ LoopNext
    \/ LoopEnd
    \/ DownloadFound
    \/ DownloadTestMissing
    \/ DownloadFetch

StartSpec == InitMain /\ [][NextStart]_vars

\* one call of scan_crate and its analyzer process, which run side by side;
\* the operating system lets each of them run whenever it is not blocked
NextPipe ==
    \/ PopenPipe
    \/ AnalyzerWrite
    \/ ScanStep

PipeSpec ==
    /\ InitScan
    /\ [][NextPipe]_vars
    /\ WF_vars(PopenPipe)
    /\ WF_vars(AnalyzerWrite)
    /\ WF_vars(ScanStep)

\* runs over a package list, every analyzer following the protocol
NextMetadata ==
    \/ LoopNext
    \/ LoopEnd
    \/ DownloadFound
    \/ DownloadTestMissing
    \/ DownloadFetch
    \/ PopenMetadata
    \/ ScanStep
    \/ FoldEffect
    \/ StoreMetadata
    \/ SanityCheck
    \/ LogReports
    \/ WriteAll
    \/ WritePattern
    \/ WriteSummary
    \/ WriteMetadata

MetadataSpec == Init /\ [][NextMetadata]_vars

(***************************************************************************)
(* Vocabulary of the properties.                                           *)
(***************************************************************************)
\* main() is inside scan_crate
ScanPcs == {"hdr", "effects", "mhdr", "metadata", "trailing"}

\* scan_crate has returned its result for stream
Returned == pc = "fold"

\* an exception has left scan_crate
Failed == pc = "crashed"

\* the loop over the packages has ended without an abort
Completed ==
    pc \in {"sanity", "report", "write_pattern", "write_summary", "write_metadata", "done"}

\* the columns of a raw line
Columns(line) == split(strip(line))

IsBlank(line) == strip(line) = <<>>

\* a finding record: as many columns as the finding header
IsFinding(line) == ~IsBlank(line) /\ Len(Columns(line)) = Len(split(CARGO_SCAN_CSV_HEADER))

\* number of the first blank line of s after its first line, 0 when there is none
FirstBlank(s) ==
    LET hits == {k \in 2..Len(s) : IsBlank(s[k])}
    IN  IF hits = {} THEN 0 ELSE CHOOSE k \in hits : \A m \in hits : k <= m

\* s begins with the finding header and finding lines up to a blank line
FindingsThenBlank(s) ==
    /\ s # <<>>
    /\ strip(s[1]) = CARGO_SCAN_CSV_HEADER
    /\ FirstBlank(s) > 0
    /\ \A k \in 2..(FirstBlank(s) - 1) : IsFinding(s[k])

\* s follows the protocol: finding header, finding lines, blank line,
\* metadata header, one metadata row, end
WellFormed(s) ==
    /\ FindingsThenBlank(s)
    /\ Len(s) = FirstBlank(s) + 2
    /\ strip(s[FirstBlank(s) + 1]) = CARGO_SCAN_METADATA_HEADER
    /\ ~IsBlank(s[Len(s)])

\* the finding lines of an output that follows the protocol
FindingLines(s) == SubSeq(s, 2, FirstBlank(s) - 1)

\* findings of kind k in the first n analyzer outputs
RECURSIVE KindTotal(_, _)
KindTotal(k, n) ==
    IF n = 0 THEN 0
    ELSE KindTotal(k, n - 1)
         + Cardinality({m \in 1..Len(FindingLines(outputs[n])) :
                          Columns(FindingLines(outputs[n])[m])[4] = k})

\* findings of package p in the first n analyzer outputs
RECURSIVE CrateTotal(_, _)
CrateTotal(p, n) ==
    IF n = 0 THEN 0
    ELSE CrateTotal(p, n - 1)
         + (IF scan_log[n] = p THEN Len(FindingLines(outputs[n])) ELSE 0)

\* the pattern-kinds the lines of the model can carry
Kinds == {Columns(l)[4] : l \in {x \in Lines : Len(Columns(x)) >= 4}}

(***************************************************************************)
(* C1.  The per-pattern counts and the per-package counts always add up to *)
(* the same number, the number of findings folded so far: each finding     *)
(* adds 1 to one pattern bucket and 1 to one package bucket.               *)
(***************************************************************************)
C1_SumsAgree ==
    /\ SumValues(pattern_summary) = SumValues(crate_summary)
    /\ SumValues(crate_summary) = Len(results)

\* a completed run that counted the same kind twice and two different kinds
C1_Witness ==
    /\ pc = "done"
    /\ Len(results) >= 3
    /\ Len(pattern_summary) = 2

(***************************************************************************)
(* C2.  All or nothing per package: no step of scan_crate, from the start  *)
(* of the analyzer to the return or the exception, changes the raw results *)
(* or a summary, so that after a failed parse they are as they were before *)
(* the package was parsed.                                                 *)
(***************************************************************************)
C2_AllOrNothing ==
    [][(pc \in ScanPcs \cup {"popen"}) => (UNCHANGED summaries)]_vars

\* the parse of the second package fails after findings were decoded, the
\* first package's findings being committed
C2_Witness ==
    /\ Failed
    /\ i = 2
    /\ effects # <<>>
    /\ results # <<>>
    /\ Len(results) = SumValues(crate_summary)

(***************************************************************************)
(* C3 (as claimed).  An output with the right finding header, finding      *)
(* lines, and then the metadata header and a metadata row with no blank    *)
(* line before them makes scan_crate fail with one of its assertions.      *)
(***************************************************************************)
NoSeparator(s) ==
    /\ Len(s) >= 3
    /\ strip(s[1]) = CARGO_SCAN_CSV_HEADER
    /\ \A k \in 2..(Len(s) - 2) : IsFinding(s[k])
    /\ strip(s[Len(s) - 1]) = CARGO_SCAN_METADATA_HEADER
    /\ ~IsBlank(s[Len(s)])

C3_NoSeparatorIsProtocolError ==
    ((Returned \/ Failed) /\ NoSeparator(stream))
        => (Failed /\ raised[1] = "AssertionError")

(***************************************************************************)
(* C4 (as claimed).  scan_crate returns only for an output whose first     *)
(* line is the finding header, and for every other output, the empty one   *)
(* included, it fails with the assertion on the header row and returns     *)
(* nothing.                                                                *)
(***************************************************************************)
HeaderOk(s) == s # <<>> /\ strip(s[1]) = CARGO_SCAN_CSV_HEADER

C4_HeaderOrProtocolError ==
    /\ Returned => HeaderOk(stream)
    /\ ((Returned \/ Failed) /\ ~HeaderOk(stream))
         => (Failed /\ raised = BadHeader /\ effects = <<>> /\ metadata = <<>>)

(***************************************************************************)
(* C5 (as claimed).  After the finding lines, when the line that follows   *)
(* the first blank line is not the metadata header or is not there,        *)
(* scan_crate fails with the assertion on the metadata header.             *)
(***************************************************************************)
MetadataHeaderOk(s) ==
    /\ Len(s) > FirstBlank(s)
    /\ strip(s[FirstBlank(s) + 1]) = CARGO_SCAN_METADATA_HEADER

C5_MetadataHeaderOrProtocolError ==
    ((Returned \/ Failed) /\ FindingsThenBlank(stream) /\ ~MetadataHeaderOk(stream))
        => (Failed /\ raised = BadMetadataHeader)

(***************************************************************************)
(* C6.  scan_crate returns only when the output ends with the metadata     *)
(* row: the row is the one line after the metadata header, and a line that *)
(* follows it makes scan_crate fail with the assertion on extra output.    *)
(***************************************************************************)
C6_EndsAfterMetadataRow ==
    /\ Returned =>
         /\ eof
         /\ pos = Len(stream)
         /\ Len(stream) = Len(effects) + 4
         /\ strip(stream[Len(stream) - 1]) = CARGO_SCAN_METADATA_HEADER
         /\ metadata = strip(stream[Len(stream)])
    /\ ( /\ Returned \/ Failed
         /\ FindingsThenBlank(stream)
         /\ MetadataHeaderOk(stream)
         /\ Len(stream) > FirstBlank(stream) + 2 )
         => (Failed /\ raised = ExtraOutput)

\* a line follows the metadata row of an output with a finding
C6_Witness ==
    /\ Failed
    /\ raised = ExtraOutput
    /\ effects # <<>>
    /\ Len(stream) = FirstBlank(stream) + 3

(***************************************************************************)
(* C7.  For an output that follows the protocol scan_crate returns one     *)
(* finding per finding line, in the order of the lines, each with the      *)
(* pattern-kind of its 'effect' column, and the metadata row.              *)
(***************************************************************************)
C7_FindingsInStreamOrder ==
    ((Returned \/ Failed) /\ WellFormed(stream)) =>
        /\ Returned
        /\ Len(effects) = Len(FindingLines(stream))
        /\ \A k \in 1..Len(effects) :
             effects[k] = <<Columns(stream[k + 1])[4], strip(stream[k + 1])>>
        /\ metadata = strip(stream[Len(stream)])

\* two different findings were returned
C7_Witness ==
    /\ Returned
    /\ WellFormed(stream)
    /\ Len(effects) = 2
    /\ effects[1] # effects[2]

(***************************************************************************)
(* C8.  After the package loop, every bucket of pattern_summary holds the  *)
(* number of findings of its kind over all packages, there is a bucket for *)
(* exactly the kinds that occurred, and crate_summary holds for every      *)
(* package the number of findings parsed for it.                           *)
(***************************************************************************)
C8_CountsPerKindAndPackage ==
    Completed =>
        /\ \A n \in 1..Len(pattern_summary) :
             /\ pattern_summary[n][2] = KindTotal(pattern_summary[n][1], Len(outputs))
             /\ pattern_summary[n][2] > 0
             /\ \A m \in 1..Len(pattern_summary) :
                  pattern_summary[m][1] = pattern_summary[n][1] => m = n
        /\ \A k \in Kinds : KindTotal(k, Len(outputs)) > 0 => HasKey(pattern_summary, k)
        /\ \A n \in 1..Len(crates) :
             /\ HasKey(crate_summary, crates[n])
             /\ DictGet(crate_summary, crates[n]) = CrateTotal(crates[n], Len(outputs))

\* two packages, each reporting Unsafe once
C8_Witness ==
    /\ pc = "done"
    /\ crates = <<"a", "b">>
    /\ \A n \in 1..2 : FindingLines(outputs[n]) = <<UnsafeLine>>
    /\ pattern_summary = <<<<<<"Unsafe">>, 2>>>>

(***************************************************************************)
(* C9.  cargo-download is run for a package only when its directory is     *)
(* missing and the run is no test run.                                     *)
(***************************************************************************)
C9_FetchOnlyWhenMissing ==
    [][fetch_log' # fetch_log =>
         /\ fetch_log' = Append(fetch_log, crate)
         /\ crate \notin existing
         /\ ~test_run]_vars

\* a run that fetched its second package and not its first
C9_Witness ==
    /\ fetch_log = <<"b">>
    /\ scan_log = <<"a", "b">>

(***************************************************************************)
(* C10.  A failed fetch ends the run at once with exit status 1: the       *)
(* analyzer is not started for the package, nothing is resolved, scanned,  *)
(* folded, logged or written afterwards.                                   *)
(***************************************************************************)
FetchFailed == raised[1] = "CalledProcessError"

C10_FetchFailureAborts ==
    /\ [](FetchFailed =>
            /\ pc = "exited"
            /\ exit_code = 1
            /\ fetch_log[Len(fetch_log)] = crate
            /\ Len(scan_log) = i - 1
            /\ ~sanity_logged
            /\ logged = <<>>
            /\ files = <<>>
            /\ ~ENABLED Next)
    /\ [][FetchFailed' => (UNCHANGED <<summaries, scan_log, logged, files>>)]_vars

\* the fetch of the second package fails after the first was folded
C10_Witness ==
    /\ FetchFailed
    /\ i = 2
    /\ results # <<>>

(***************************************************************************)
(* C11 (as claimed).  Once main() is past its verbosity check: for every   *)
(* count above 4 the run has ended with exit status 1 through the check    *)
(* that logs "verbosity only goes up to 4", no package resolved or         *)
(* scanned; for a count in 0..4 the run has not ended through that check.  *)
(***************************************************************************)
C11_VerbosityUpTo4 ==
    pc # "args" =>
        /\ verbose > 4 =>
             /\ raised = InvalidVerbosity
             /\ pc = "exited"
             /\ exit_code = 1
             /\ fetch_log = <<>>
             /\ scan_log = <<>>
        /\ verbose <= 4 => raised # InvalidVerbosity

\* the pattern reports emitted so far, to the log or to a file
PatternReports ==
    {logged[n] : n \in {1} \cap DOMAIN logged} \cup {files[n][2] : n \in {2} \cap DOMAIN files}

\* position of the item of key k in the dict d
KeyIndex(d, k) == CHOOSE n \in 1..Len(d) : d[n][1] = k

(***************************************************************************)
(* C12.  The pattern report has one row per kind of pattern_summary, with  *)
(* the kind's count; the counts never increase from a row to the next, and *)
(* of two kinds with the same count the one whose bucket was inserted      *)
(* first comes first.                                                      *)
(***************************************************************************)
C12_PatternReportSorted ==
    \A report \in PatternReports :
        LET rows == report.rows IN
        /\ Len(rows) = Len(pattern_summary)
        /\ \A n \in 1..Len(pattern_summary) :
             Cardinality({q \in 1..Len(rows) : rows[q][1] = pattern_summary[n][1]}) = 1
        /\ \A q \in 1..Len(rows) :
             /\ HasKey(pattern_summary, rows[q][1])
             /\ rows[q][2] = DictGet(pattern_summary, rows[q][1])
        /\ \A q \in 1..Len(rows), r \in 1..Len(rows) :
             q < r =>
                /\ rows[q][2] >= rows[r][2]
                /\ rows[q][2] = rows[r][2] =>
                     KeyIndex(pattern_summary, rows[q][1]) < KeyIndex(pattern_summary, rows[r][1])

\* a report that puts the kind inserted second, counted twice, before the
\* kind inserted first, counted once
C12_Witness ==
    /\ pc = "done"
    /\ Len(pattern_summary) = 2
    /\ pattern_summary[1][2] = 1
    /\ pattern_summary[2][2] = 2
    /\ \E report \in PatternReports :
         report.rows = <<pattern_summary[2], pattern_summary[1]>>

\* the package reports emitted so far, to the log or to a file
CrateReports ==
    {logged[n] : n \in {2} \cap DOMAIN logged} \cup {files[n][2] : n \in {3} \cap DOMAIN files}

\* the distinct packages of the run
RunPackages == {crates[n] : n \in 1..Len(crates)}

(***************************************************************************)
(* C13.  The package report has one row, with the count, for each package  *)
(* with at least one finding and no row for a package without findings;    *)
(* the counts never increase from a row to the next; its two totals are    *)
(* the number of packages with findings and the number without, and they   *)
(* add up to the number of distinct packages of the run.                   *)
(***************************************************************************)
C13_CrateReportTotals ==
    \A report \in CrateReports :
        LET rows == report.rows IN
        /\ \A p \in RunPackages :
             Cardinality({q \in 1..Len(rows) : rows[q][1] = p})
                = IF DictGet(crate_summary, p) > 0 THEN 1 ELSE 0
        /\ \A q \in 1..Len(rows) :
             /\ rows[q][1] \in RunPackages
             /\ rows[q][2] = DictGet(crate_summary, rows[q][1])
             /\ q < Len(rows) => rows[q][2] >= rows[q + 1][2]
        /\ report.num_nonzero = Cardinality({p \in RunPackages : DictGet(crate_summary, p) > 0})
        /\ report.num_zero = Cardinality({p \in RunPackages : DictGet(crate_summary, p) = 0})
        /\ report.num_nonzero + report.num_zero = Cardinality(RunPackages)

\* a run of two packages of which the first has no finding
C13_Witness ==
    /\ pc = "done"
    /\ crates = <<"a", "b">>
    /\ DictGet(crate_summary, "a") = 0
    /\ \E report \in CrateReports :
         /\ report.rows = <<<<"b", 2>>>>
         /\ report.num_nonzero = 1
         /\ report.num_zero = 1

\* the metadata reports emitted so far, to the log or to a file
MetadataReports ==
    {logged[n] : n \in {3} \cap DOMAIN logged} \cup {files[n][2] : n \in {4} \cap DOMAIN files}

\* number of the last analyzer output of package p
LastOutput(p) ==
    CHOOSE n \in 1..Len(scan_log) :
        scan_log[n] = p /\ \A m \in (n + 1)..Len(scan_log) : scan_log[m] # p

(***************************************************************************)
(* C14.  After the package loop metadata_summary has one record for each   *)
(* distinct package of the run, the metadata row of the package's last     *)
(* analyzer output; the metadata report is the header row "crate, " +      *)
(* metadata header and one row per package with its record, no row's       *)
(* record greater, as text, than the record of a row before it.            *)
(***************************************************************************)
C14_MetadataPerPackage ==
    Completed =>
        /\ Len(metadata_summary) = Cardinality(RunPackages)
        /\ \A p \in RunPackages :
             /\ HasKey(metadata_summary, p)
             /\ DictGet(metadata_summary, p)
                  = strip(outputs[LastOutput(p)][Len(outputs[LastOutput(p)])])
        /\ \A report \in MetadataReports :
             LET rows == report.rows IN
             /\ report.title = <<"crate", ",", " ">> \o CARGO_SCAN_METADATA_HEADER
             /\ Len(rows) = Cardinality(RunPackages)
             /\ \A p \in RunPackages :
                  \E q \in 1..Len(rows) : rows[q] = <<p, DictGet(metadata_summary, p)>>
             /\ \A q \in 1..Len(rows), r \in 1..Len(rows) :
                  q < r => ~StrGreater(rows[r][2], rows[q][2])

\* the package listed second has the greater metadata row and is reported
\* first
C14_Witness ==
    /\ pc = "done"
    /\ crates = <<"a", "b">>
    /\ metadata_summary = <<<<"a", strip(MetaRowLine)>>, <<"b", strip(OtherRowLine)>>>>
    /\ \E report \in MetadataReports :
         report.rows = <<<<"b", strip(OtherRowLine)>>, <<"a", strip(MetaRowLine)>>>>

\* the lists of up to MaxCrates data rows, plain or with a quoted column
DataRowLists ==
    UNION {[1..n -> ListRows \ {BlankLine}] : n \in 0..MaxCrates}

(***************************************************************************)
(* C15 (as claimed).  Once main() has read a list file of a header row and *)
(* n data rows, num_crates is n and the packages of the run are the first  *)
(* columns of the n data rows, in the order of the file.                   *)
(***************************************************************************)
C15_CountIsDataRows ==
    (pc \notin {"args", "list", "exited", "crashed"}) =>
        \A rows \in DataRowLists :
            infile = <<HeaderRow \o Flatten(rows)>> =>
                /\ num_crates = Len(rows)
                /\ Len(crates) = num_crates
                /\ \A k \in 1..Len(rows) : crates[k] = rows[k][1]

\* the findings of the first n analyzer outputs, in the order of the outputs
\* and of their lines
RECURSIVE FindingsUpTo(_)
FindingsUpTo(n) ==
    IF n = 0 THEN <<>>
    ELSE FindingsUpTo(n - 1)
         \o [k \in 1..Len(FindingLines(outputs[n])) |-> strip(FindingLines(outputs[n])[k])]

\* the suffixes of the result files, in the order in which main() writes them
ResultSuffixes ==
    <<RESULTS_ALL_SUFFIX, RESULTS_PATTERN_SUFFIX, RESULTS_SUMMARY_SUFFIX,
      RESULTS_METADATA_SUFFIX>>

(***************************************************************************)
(* C16.  A report is logged or written only when every package of the list *)
(* has been scanned and folded.  Without an output prefix no file is       *)
(* written and the three summaries are logged; with a prefix nothing is    *)
(* logged and the files written are, in this order, <prefix>_all.csv,      *)
(* _pattern.txt, _summary.txt, _metadata.csv, all four when the run is     *)
(* done; <prefix>_all.csv holds the finding header and then the findings   *)
(* of all packages, packages in list order, findings in output order.      *)
(***************************************************************************)
C16_ReportsAfterLoop ==
    /\ (logged # <<>> \/ files # <<>>) =>
         /\ i = Len(crates)
         /\ scan_log = crates
         /\ pc \in {"write_pattern", "write_summary", "write_metadata", "done"}
         /\ results = FindingsUpTo(Len(crates))
    /\ output_prefix = None =>
         /\ files = <<>>
         /\ pc = "done" => Len(logged) = 3
    /\ output_prefix # None =>
         /\ logged = <<>>
         /\ Len(files) <= 4
         /\ pc = "done" => Len(files) = 4
         /\ \A n \in 1..Len(files) :
              files[n][1] = make_path(RESULTS_DIR, output_prefix, ResultSuffixes[n])
         /\ files # <<>> =>
              files[1][2] = <<CARGO_SCAN_CSV_HEADER>> \o FindingsUpTo(Len(crates))

\* four files written for two packages with three findings
C16_Witness ==
    /\ pc = "done"
    /\ crates = <<"a", "b">>
    /\ Len(files) = 4
    /\ files[1][2] = <<CARGO_SCAN_CSV_HEADER, strip(UnsafeLine), strip(UnsafeLine),
                       strip(FileReadLine)>>

(***************************************************************************)
(* C17.  One package at a time, in list order, one attempt each: the       *)
(* analyzer runs started so far are for the first packages of the list,    *)
(* one run per list entry reached; cargo-download has run at most once per *)
(* package; and a step that starts an analyzer starts it for the next list *)
(* entry, the output of the run before it read to its end and its          *)
(* findings and metadata row folded into the summaries.                    *)
(***************************************************************************)
C17_OneAtATime ==
    /\ [](/\ Len(scan_log) <= i
          /\ \A n \in 1..Len(scan_log) : scan_log[n] = crates[n]
          /\ Len(outputs) = Len(scan_log)
          /\ Len(fetch_log) <= i
          /\ \A m \in 1..Len(fetch_log), n \in 1..Len(fetch_log) :
               fetch_log[m] = fetch_log[n] => m = n)
    /\ [][scan_log' # scan_log =>
            /\ scan_log' = Append(scan_log, crates[Len(scan_log) + 1])
            /\ i = Len(scan_log) + 1
            /\ scan_log # <<>> =>
                 /\ eof
                 /\ pos = Len(stream)
                 /\ j = Len(effects) + 1
                 /\ results = FindingsUpTo(Len(outputs))
                 /\ DictGet(metadata_summary, scan_log[Len(scan_log)]) = metadata]_vars

\* the analyzer of the second package starts after two findings of the first
\* were folded
C17_Witness ==
    /\ pc = "hdr"
    /\ scan_log = <<"a", "b">>
    /\ Len(results) = 2
    /\ pos = 0

\* a line of s after a right finding header and before the first blank line
\* (or the end of s) has not the column count of the finding header
WrongColumnCount(s) ==
    /\ HeaderOk(s)
    /\ \E k \in 2..(IF FirstBlank(s) = 0 THEN Len(s) ELSE FirstBlank(s) - 1) :
         ~IsFinding(s[k])

(***************************************************************************)
(* C18 (as claimed).  Every finding scan_crate returns has the 8 columns   *)
(* of the finding header, and an output with a line of another column      *)
(* count between the finding header and the blank line makes scan_crate    *)
(* fail with one of its assertions.                                        *)
(***************************************************************************)
C18_FindingsHaveHeaderColumns ==
    /\ Returned =>
         \A k \in 1..Len(effects) :
             Len(split(effects[k][2])) = Len(split(CARGO_SCAN_CSV_HEADER))
    /\ ((Returned \/ Failed) /\ WrongColumnCount(stream))
         => (Failed /\ raised[1] = "AssertionError")

(***************************************************************************)
(* C19 (as claimed).  In a test run the analyzer is never started for a    *)
(* package whose directory download_crate found missing.                   *)
(***************************************************************************)
C19_MissingNeverScanned ==
    test_run => \A n \in 1..Len(scan_log) : scan_log[n] \in existing

(***************************************************************************)
(* C20 (as claimed).  A call of scan_crate whose analyzer writes finitely  *)
(* many lines to stdout and a finite amount to stderr, through bounded     *)
(* pipes, and exits, ends: it returns or raises.                           *)
(***************************************************************************)
C20_ScanCrateEnds == (pc = "hdr") ~> (Returned \/ Failed)

====
